---- MODULE Spec2Model ----
(***************************************************************************)
(* Job lifecycle, idempotent submission, retry policy, admission control, *)
(* credits and status streaming of the AEON generation pipeline.           *)
(*                                                                         *)
(*   Spec        services/worker/worker.py tasks, the job store they       *)
(*               write, and the poll / cancel read paths                   *)
(*   SpecCreate  services/api/app/routers/jobs.py create_job with its      *)
(*               Idempotency-Key handling                                  *)
(*   SpecIdem    aeon_workers/app.py IdempotentTask                        *)
(*   SpecMedia   aeon/tasks/media.py generation tasks                      *)
(*   SpecBucketSeq / SpecBucket  aeon/services/ratelimit.py                *)
(*               LeakyBucketLimiter.allow, one call at a time / concurrent *)
(*   SpecMediaApi  services/api/app/routers/media.py create_job behind     *)
(*               rate_limit                                                *)
(*   SpecAdmission  allow() and rate_limit under redis failures            *)
(*   SpecCredits  aeon/services credits and jobs services, generate_image  *)
(*   SpecStream  stream_jobs and the /ws/jobs websocket                    *)
(*   SpecQuote   aeon/routers/media_image.py, media_video.py and           *)
(*               media_music.py: estimate-cost and generate                *)
(*   SpecWeb     services/api/app/routers/webgen.py commit and the two     *)
(*               consumers of webgen_queue (runner.py, webgen_consumer.py) *)
(*   SpecKey     the key IdempotentTask.__call__ builds from args, kwargs  *)
(*   SpecSlide   aeon/utils/redis.py RateLimiter.is_allowed                *)
(***************************************************************************)
EXTENDS Integers, Sequences, FiniteSets, TLC

NULL == "NULL"

\* ------------------------------------------------------------------------
\* Bounds
\* ------------------------------------------------------------------------
MaxOutputs == 2

\* the job whose life is followed; a task only ever touches the row of its own job_id
JobIds == {1}

\* str(e) of the exception an attempt raises; "" is an exception without text
Messages == {"", "boom"}

WorkerKinds == {"image", "video", "audio"}

Terminal == {"COMPLETED", "FAILED", "CANCELLED"}

\* ------------------------------------------------------------------------
\* Job store and worker tasks (services/worker/worker.py)
\* ------------------------------------------------------------------------
VARIABLES
  job,         \* job[j]: the Job row, NoJob before it is inserted
  task,        \* task[j]: the queue's view of the job's task and the worker's position in it
  assets,      \* assets[j]: number of Asset rows of the job
  s3puts,      \* s3puts[j]: number of put_object calls made for the job
  poll,        \* poll[j]: a get_job call in flight
  lastPoll,    \* lastPoll[j]: status returned by the last finished get_job
  cancelResp,  \* cancelResp[j]: response of the last cancel request
  events       \* events[j]: the statuses published on jobs_events for job j, in order

lifeVars == <<job, task, assets, s3puts, poll, lastPoll, cancelResp, events>>

\* ------------------------------------------------------------------------
\* create_job and its Idempotency-Key (services/api/app/routers/jobs.py)
\* ------------------------------------------------------------------------
VARIABLES
  now,         \* wall clock, seconds
  redisIdem,   \* redisIdem[k]: value and expiry of the redis key k
  cjobs,       \* the jobs table as create_job fills it; a row's id is its index
  sent,        \* send_task calls made, in order
  req          \* req[r]: a create_job call and its position; seen and fresh
               \* record which calls had ended, and which had returned a job
               \* they created less than 24 h before, when call r arrived

createVars == <<redisIdem, cjobs, sent, req>>

\* ------------------------------------------------------------------------
\* IdempotentTask (aeon_workers/app.py)
\* ------------------------------------------------------------------------
VARIABLES
  idemStore,   \* idemStore[k]: expiry of the idem:<sha256> key k, 0 when absent
  runsInLife,  \* runsInLife[k]: task bodies entered since key k was last set
  tmsg         \* tmsg[m]: a task message and its executions

idemVars == <<idemStore, runsInLife, tmsg>>

\* ------------------------------------------------------------------------
\* Media tasks (aeon/tasks/media.py)
\* ------------------------------------------------------------------------
VARIABLES
  mtask        \* the media task: position, queue state, retries

mediaVars == <<mtask>>

\* ------------------------------------------------------------------------
\* LeakyBucketLimiter (aeon/services/ratelimit.py)
\* ------------------------------------------------------------------------
VARIABLES
  bnow,        \* time.time(), in half seconds
  bucket,      \* the redis hash rl:<user_id>: tokens, ts and the key's expiry
  bcall        \* bcall[c]: an allow() call, what it read and what it returned

bucketVars == <<bnow, bucket, bcall>>

\* ------------------------------------------------------------------------
\* rate_limit and create_job of the media router (services/api/app)
\* ------------------------------------------------------------------------
VARIABLES
  rlnow,       \* time.time(), seconds
  rl,          \* rl[k]: value and expiry of the counter key k
  mjobs,       \* the jobs table as create_job fills it; a row's id is its index
  msent,       \* the task calls that went through, in order
  mreq         \* mreq[r]: a create_job request and its position

mapiVars == <<rlnow, rl, mjobs, msent, mreq>>

\* ------------------------------------------------------------------------
\* JobsService, CreditsService and the image router (backend-api/aeon)
\* ------------------------------------------------------------------------
VARIABLES
  balance,     \* the user's credit balance in the ledger
  debited,     \* credits taken from the balance so far
  sjobs,       \* the rows of the jobs table: cost_credits of each
  credMetric,  \* credits_debited_total, the metric of credits debited
  imgJobs      \* the ImageJob answers of generate_image: credits_cost of each

creditVars == <<balance, debited, sjobs, credMetric, imgJobs>>

\* ------------------------------------------------------------------------
\* stream_jobs and the /ws/jobs websocket (services/api/app/routers)
\* ------------------------------------------------------------------------
VARIABLES
  sclock,      \* the clock's second hand: even or odd second
  strm,        \* strm[k]: the streaming connection of kind k
  qstate,      \* AsyncResult.state of the task of the streamed job
  wsPending    \* the message of jobs_events of this second: none, pending, forwarded

streamVars == <<sclock, strm, qstate, wsPending>>

\* ------------------------------------------------------------------------
\* estimate and generate of the media routers (backend-api/aeon/routers)
\* ------------------------------------------------------------------------
VARIABLES
  qnow,        \* wall clock of the quote service
  quote,       \* the last answer of an estimate endpoint
  gjob         \* the last job answered by a generate endpoint

quoteVars == <<qnow, quote, gjob>>

\* ------------------------------------------------------------------------
\* webgen: commit, get_project and the queue consumers
\* ------------------------------------------------------------------------
VARIABLES
  wproj,       \* wproj[p]: the web_projects row of project p and what commit did
  wqueue,      \* the list aeon:webgen_queue, head first
  wcons,       \* wcons[c]: the consumer process c and the job it holds
  wpoll,       \* wpoll[p]: the status get_project last reported for p
  wpar         \* parity of the number of polls made

webVars == <<wproj, wqueue, wcons, wpoll, wpar>>

\* ------------------------------------------------------------------------
\* IdempotentTask key (aeon_workers/app.py)
\* ------------------------------------------------------------------------
VARIABLES
  kinv         \* kinv[i]: the i-th invocation looked at: name, args, kwargs, key

keyVars == <<kinv>>

\* ------------------------------------------------------------------------
\* RateLimiter (backend-workers/aeon/utils/redis.py)
\* ------------------------------------------------------------------------
VARIABLES
  slnow,       \* time.time()
  zset,        \* the sorted set rate_limit:<key>: its members (member = score)
  slcall       \* slcall[c]: an is_allowed call: position, timestamp, answer

slideVars == <<slnow, zset, slcall>>

laterVars == <<bucketVars, mapiVars, creditVars, streamVars>>

thirdVars == <<quoteVars, webVars, keyVars, slideVars>>

nonLifeVars == <<now, createVars, idemVars, mediaVars, laterVars, thirdVars>>
nonCreateVars == <<lifeVars, idemVars, mediaVars, laterVars, thirdVars>>
nonIdemVars == <<lifeVars, createVars, mediaVars, laterVars, thirdVars>>
nonMediaVars == <<now, lifeVars, createVars, idemVars, laterVars, thirdVars>>
firstVars == <<now, lifeVars, createVars, idemVars, mediaVars>>
nonBucketVars == <<firstVars, mapiVars, creditVars, streamVars, thirdVars>>
nonMapiVars == <<firstVars, bucketVars, creditVars, streamVars, thirdVars>>
nonCreditVars == <<firstVars, bucketVars, mapiVars, streamVars, thirdVars>>
nonStreamVars == <<firstVars, bucketVars, mapiVars, creditVars, thirdVars>>
nonQuoteVars == <<firstVars, laterVars, webVars, keyVars, slideVars>>
nonWebVars == <<firstVars, laterVars, quoteVars, keyVars, slideVars>>
nonKeyVars == <<firstVars, laterVars, quoteVars, webVars, slideVars>>
nonSlideVars == <<firstVars, laterVars, quoteVars, webVars, keyVars>>

\* Task.max_retries of the worker tasks
max_retries == 3

JobType(kind) ==
  CASE kind = "image" -> "IMAGE_GENERATION"
    [] kind = "video" -> "VIDEO_GENERATION"
    [] kind = "audio" -> "AUDIO_GENERATION"

\* status_map of the jobs router: queue state -> reported status
status_map ==
  [s \in {"PENDING", "RECEIVED", "STARTED", "RETRY", "SUCCESS", "FAILURE"} |->
     CASE s \in {"PENDING", "RECEIVED"} -> "queued"
       [] s \in {"STARTED", "RETRY"} -> "processing"
       [] s = "SUCCESS" -> "completed"
       [] s = "FAILURE" -> "failed"]

Lower(st) ==
  CASE st = "PENDING" -> "pending"
    [] st = "PROCESSING" -> "processing"
    [] st = "COMPLETED" -> "completed"
    [] st = "FAILED" -> "failed"
    [] st = "CANCELLED" -> "cancelled"

\* `if error:` of set_job_status_sync
ErrorGiven(error) == error # NULL /\ error # ""

\* set_job_status_sync applied to a Job row
set_job_status_sync(row, st, error) ==
  [row EXCEPT !.status = st,
              !.error_message = IF ErrorGiven(error) THEN error ELSE @,
              !.completed_at = IF st = "COMPLETED" THEN "set" ELSE @]

\* _publish_job_event, called by set_job_status_sync after the commit: the
\* event carries job.status.value (redis taken to accept the publish)
publish_job_event(evs, row) == Append(evs, Lower(row.status))

NewJob(kind) ==
  [type |-> JobType(kind), status |-> "PENDING", error_message |-> NULL,
   completed_at |-> NULL, external_job_id |-> NULL, output_data |-> NULL]

NoJob ==
  [type |-> NULL, status |-> "ABSENT", error_message |-> NULL,
   completed_at |-> NULL, external_job_id |-> NULL, output_data |-> NULL]

\* str(res.id) of the task sent for job j
TaskId(j) == "task"

NoPoll == [normalized |-> "none", write |-> FALSE, stored |-> "none"]

NoTask ==
  [kind |-> "none", state |-> "NONE", retries |-> 0, runs |-> 0, pc |-> "none",
   n |-> 0, i |-> 0, exc |-> NULL, failWriteRaised |-> FALSE]

Running == {"provider", "processing", "store", "complete", "return", "except"}

LifeInit ==
  /\ job = [j \in JobIds |-> NoJob]
  /\ task = [j \in JobIds |-> NoTask]
  /\ assets = [j \in JobIds |-> 0]
  /\ s3puts = [j \in JobIds |-> 0]
  /\ poll = [j \in JobIds |-> NoPoll]
  /\ lastPoll = [j \in JobIds |-> "none"]
  /\ cancelResp = [j \in JobIds |-> "none"]
  /\ events = [j \in JobIds |-> << >>]

\* image_generate / video_generate / audio_generate up to send_task: the Job
\* row is committed as PENDING and the task message is put on the queue
Submit(j, kind) ==
  /\ job[j] = NoJob
  /\ \A k \in JobIds : k < j => job[k] # NoJob
  /\ job' = [job EXCEPT ![j] = NewJob(kind)]
  /\ task' = [task EXCEPT ![j] = [NoTask EXCEPT !.kind = kind, !.state = "PENDING", !.pc = "queued"]]
  /\ UNCHANGED <<assets, s3puts, poll, lastPoll, cancelResp>>
  /\ UNCHANGED events
  /\ UNCHANGED nonLifeVars

\* ... and the rest of the handler: external_job_id = str(res.id)
SaveTaskId(j) ==
  /\ job[j] # NoJob
  /\ job[j].external_job_id = NULL
  /\ job' = [job EXCEPT ![j].external_job_id = TaskId(j)]
  /\ UNCHANGED <<task, assets, s3puts, poll, lastPoll, cancelResp>>
  /\ UNCHANGED events
  /\ UNCHANGED nonLifeVars

\* a worker takes the task message and enters the task body
Begin(j) ==
  /\ task[j].pc = "queued"
  /\ task' = [task EXCEPT ![j].pc = "provider", ![j].runs = @ + 1]
  /\ UNCHANGED <<job, assets, s3puts, poll, lastPoll, cancelResp>>
  /\ UNCHANGED events
  /\ UNCHANGED nonLifeVars

Raise(t, msg) == [t EXCEPT !.pc = "except", !.exc = msg]

\* generate_image: client.run(...)
\* generate_video / generate_audio: provider call, download and put_object,
\* all of which precede the PROCESSING write
ProviderCall(j) ==
  /\ task[j].pc = "provider"
  /\ \/ \E msg \in Messages :
          /\ task' = [task EXCEPT ![j] = Raise(@, msg)]
          /\ UNCHANGED s3puts
     \/ /\ task[j].kind = "image"
        /\ \E n \in 1..MaxOutputs :
             task' = [task EXCEPT ![j].pc = "processing", ![j].n = n, ![j].i = 0]
        /\ UNCHANGED s3puts
     \/ /\ task[j].kind \in {"video", "audio"}
        /\ task' = [task EXCEPT ![j].pc = "processing", ![j].n = 1, ![j].i = 0]
        /\ s3puts' = [s3puts EXCEPT ![j] = @ + 1]
  /\ UNCHANGED <<job, assets, poll, lastPoll, cancelResp>>
  /\ UNCHANGED events
  /\ UNCHANGED nonLifeVars

\* set_job_status_sync(job_id, JobStatus.PROCESSING); the write may raise
WriteProcessing(j) ==
  /\ task[j].pc = "processing"
  /\ \/ /\ job' = [job EXCEPT ![j] = set_job_status_sync(@, "PROCESSING", NULL)]
        /\ events' = [events EXCEPT ![j] = publish_job_event(@, job'[j])]
        /\ task' = [task EXCEPT ![j].pc = "store"]
     \/ \E msg \in Messages :
          /\ task' = [task EXCEPT ![j] = Raise(@, msg)]
          /\ UNCHANGED <<job, events>>
  /\ UNCHANGED <<assets, s3puts, poll, lastPoll, cancelResp>>
  /\ UNCHANGED nonLifeVars

\* one output: (image: requests.get, put_object,) db.add(asset), db.commit()
StoreOutput(j) ==
  /\ task[j].pc = "store"
  /\ \/ \* download or put_object fails (image only: the others did it before)
        /\ task[j].kind = "image"
        /\ \E msg \in Messages : task' = [task EXCEPT ![j] = Raise(@, msg)]
        /\ UNCHANGED <<assets, s3puts>>
     \/ \* the asset commit fails
        /\ \E msg \in Messages : task' = [task EXCEPT ![j] = Raise(@, msg)]
        /\ s3puts' = [s3puts EXCEPT ![j] = IF task[j].kind = "image" THEN @ + 1 ELSE @]
        /\ UNCHANGED assets
     \/ /\ s3puts' = [s3puts EXCEPT ![j] = IF task[j].kind = "image" THEN @ + 1 ELSE @]
        /\ assets' = [assets EXCEPT ![j] = @ + 1]
        /\ task' = [task EXCEPT ![j].i = @ + 1,
                                ![j].pc = IF task[j].i + 1 = task[j].n THEN "complete" ELSE "store"]
  /\ UNCHANGED <<job, poll, lastPoll, cancelResp>>
  /\ UNCHANGED events
  /\ UNCHANGED nonLifeVars

\* set_job_status_sync(job_id, JobStatus.COMPLETED)
WriteCompleted(j) ==
  /\ task[j].pc = "complete"
  /\ \/ /\ job' = [job EXCEPT ![j] = set_job_status_sync(@, "COMPLETED", NULL)]
        /\ events' = [events EXCEPT ![j] = publish_job_event(@, job'[j])]
        /\ task' = [task EXCEPT ![j].pc = "return"]
     \/ \E msg \in Messages :
          /\ task' = [task EXCEPT ![j] = Raise(@, msg)]
          /\ UNCHANGED <<job, events>>
  /\ UNCHANGED <<assets, s3puts, poll, lastPoll, cancelResp>>
  /\ UNCHANGED nonLifeVars

\* return {...}: the queue records SUCCESS
Return(j) ==
  /\ task[j].pc = "return"
  /\ task' = [task EXCEPT ![j].pc = "done", ![j].state = "SUCCESS"]
  /\ UNCHANGED <<job, assets, s3puts, poll, lastPoll, cancelResp>>
  /\ UNCHANGED events
  /\ UNCHANGED nonLifeVars

\* `self.request.retries < self.max_retries` of the except branch
RetriesRemainAsAttempts(retries) == retries + 1 < max_retries

RetriesRemain(retries) == retries < max_retries

\* except Exception as e:
\*   retries remain: raise self.retry(exc=e, countdown=5); self.retry requeues
\*     the task with retries + 1 (it raises e itself once that would exceed
\*     max_retries, and the task fails);
\*   otherwise: set_job_status_sync(FAILED, str(e)); update_state(FAILURE); raise.
\*     When the FAILED write raises, that exception leaves the task instead.
HandleException(j) ==
  /\ task[j].pc = "except"
  /\ IF RetriesRemain(task[j].retries)
     THEN /\ task' = IF task[j].retries + 1 > max_retries
                     THEN [task EXCEPT ![j].pc = "done", ![j].state = "FAILURE", ![j].exc = NULL]
                     ELSE [task EXCEPT ![j].pc = "queued", ![j].state = "RETRY",
                                       ![j].retries = @ + 1, ![j].exc = NULL]
          /\ UNCHANGED <<job, events>>
     ELSE \E dbOk \in BOOLEAN :
            /\ job' = IF dbOk
                      THEN [job EXCEPT ![j] = set_job_status_sync(@, "FAILED", task[j].exc)]
                      ELSE job
            /\ events' = IF dbOk
                         THEN [events EXCEPT ![j] = publish_job_event(@, job'[j])]
                         ELSE events
            /\ task' = [task EXCEPT ![j].pc = "done", ![j].state = "FAILURE", ![j].exc = NULL,
                                    ![j].failWriteRaised = ~dbOk]
  /\ UNCHANGED <<assets, s3puts, poll, lastPoll, cancelResp>>
  /\ UNCHANGED nonLifeVars

\* the worker process dies during an attempt; the message was acknowledged
\* on receipt, so nothing redelivers it
Crash(j) ==
  /\ task[j].pc \in Running
  /\ task' = [task EXCEPT ![j].pc = "lost", ![j].exc = NULL]
  /\ UNCHANGED <<job, assets, s3puts, poll, lastPoll, cancelResp>>
  /\ UNCHANGED events
  /\ UNCHANGED nonLifeVars

\* the result backend drops the task's result when it expires: AsyncResult
\* reports PENDING for an id it knows nothing about
ResultExpires(j) ==
  /\ task[j].pc = "done"
  /\ task[j].state \in {"SUCCESS", "FAILURE"}
  /\ task' = [task EXCEPT ![j].state = "PENDING"]
  /\ UNCHANGED <<job, assets, s3puts, poll, lastPoll, cancelResp, events>>
  /\ UNCHANGED nonLifeVars

\* get_job, first half: select the Job, read AsyncResult.state
Normalized(row, t) ==
  IF row.external_job_id # NULL /\ t.state \in DOMAIN status_map
  THEN status_map[t.state]
  ELSE Lower(row.status)

\* `normalized == "completed" and (not job.output_data)`, under `if task_id:`
GetJobWritesUnchecked(row, normalized) ==
  /\ row.external_job_id # NULL
  /\ row.output_data = NULL

GetJobWrites(row, normalized) ==
  /\ row.external_job_id # NULL
  /\ normalized = "completed"
  /\ row.output_data = NULL

GetJobRead(j) ==
  /\ job[j] # NoJob
  /\ poll[j] = NoPoll
  /\ LET normalized == Normalized(job[j], task[j]) IN
       poll' = [poll EXCEPT ![j] =
                  [normalized |-> normalized, write |-> GetJobWrites(job[j], normalized),
                   stored |-> job[j].status]]
  /\ UNCHANGED <<job, task, assets, s3puts, lastPoll, cancelResp>>
  /\ UNCHANGED events
  /\ UNCHANGED nonLifeVars

\* get_job, second half: update(...).values(status=COMPLETED, output_data=data)
GetJobFinish(j) ==
  /\ poll[j] # NoPoll
  /\ job' = IF poll[j].write
            THEN [job EXCEPT ![j].status = "COMPLETED", ![j].output_data = "result"]
            ELSE job
  /\ lastPoll' = [lastPoll EXCEPT ![j] = poll[j].normalized]
  /\ poll' = [poll EXCEPT ![j] = NoPoll]
  /\ UNCHANGED <<task, assets, s3puts, cancelResp>>
  /\ UNCHANGED events
  /\ UNCHANGED nonLifeVars

\* cancel_video_job: logs and answers "cancelled"; the store and the queue
\* are not touched
cancel_video_job(j) ==
  /\ job[j] # NoJob
  /\ cancelResp[j] = "none"
  /\ cancelResp' = [cancelResp EXCEPT ![j] = "cancelled"]
  /\ UNCHANGED <<job, task, assets, s3puts, poll, lastPoll>>
  /\ UNCHANGED events
  /\ UNCHANGED nonLifeVars

\* get_job of the media router (GET /v1/media/jobs/{job_id}): the assets it
\* returns are the Asset rows with the job's id, whatever the job's status
media_get_job_assets(j) == assets[j]

WorkerStep(j) ==
  \/ Begin(j) \/ ProviderCall(j) \/ WriteProcessing(j) \/ StoreOutput(j)
  \/ WriteCompleted(j) \/ Return(j) \/ HandleException(j)

LifeNext ==
  \/ \E j \in JobIds, kind \in WorkerKinds : Submit(j, kind)
  \/ \E j \in JobIds : SaveTaskId(j)
  \/ \E j \in JobIds : Begin(j)
  \/ \E j \in JobIds : ProviderCall(j)
  \/ \E j \in JobIds : WriteProcessing(j)
  \/ \E j \in JobIds : StoreOutput(j)
  \/ \E j \in JobIds : WriteCompleted(j)
  \/ \E j \in JobIds : Return(j)
  \/ \E j \in JobIds : HandleException(j)
  \/ \E j \in JobIds : Crash(j)
  \/ \E j \in JobIds : ResultExpires(j)
  \/ \E j \in JobIds : GetJobRead(j)
  \/ \E j \in JobIds : GetJobFinish(j)
  \/ \E j \in JobIds : cancel_video_job(j)

\* ------------------------------------------------------------------------
\* create_job (POST /v1/jobs)
\* ------------------------------------------------------------------------
MaxReqs == 2
MaxTicks == 1

Reqs == 1..MaxReqs

\* redis.setex(idem_key, 24*3600, ...)
IdemTtlOneHour == 60 * 60

IDEM_TTL == 24 * 3600

\* the verified bearer claims of a caller
ClaimsSet == {[org_id |-> "acme", sub |-> "u1"], [org_id |-> NULL, sub |-> "beta co"]}

\* the Idempotency-Key header; NULL when the header is absent
HeaderKeys == {NULL, "k1"}

\* body.type
TypeInputs == {"image", "VIDEO", "audio"}

Falsy(x) == x = NULL \/ x = ""

\* str.replace(" ", "-") on the names in use
ReplaceSpaces(x) == IF x = "beta co" THEN "beta-co" ELSE x

\* (claims.get("org_id") or claims.get("sub") or "anon").replace(" ", "-")
tenant_slug(claims) ==
  ReplaceSpaces(IF ~Falsy(claims.org_id) THEN claims.org_id
                ELSE IF ~Falsy(claims.sub) THEN claims.sub ELSE "anon")

\* f"idem:{tenant_slug}:{idempotency_key}", under `if idempotency_key:`
IdemKey(slug, header) ==
  IF Falsy(header) THEN NULL ELSE "idem:" \o slug \o ":" \o header

IdemKeySet == {IdemKey(tenant_slug(c), h) : c \in ClaimsSet, h \in HeaderKeys} \ {NULL}

\* str.upper() / str.lower() on the body types in use
Upper(x) ==
  CASE x = "image" -> "IMAGE" [] x = "VIDEO" -> "VIDEO" [] x = "audio" -> "AUDIO"

LowerType(x) ==
  CASE x = "image" -> "image" [] x = "VIDEO" -> "video" [] x = "audio" -> "audio"

\* _to_jobtype
to_jobtype(v) ==
  CASE Upper(v) = "IMAGE" -> "IMAGE_GENERATION"
    [] Upper(v) = "VIDEO" -> "VIDEO_GENERATION"
    [] Upper(v) = "AUDIO" -> "AUDIO_GENERATION"
    [] OTHER -> "IMAGE_GENERATION"

\* the if / elif / else around send_task in create_job
DispatchedTask(ty) ==
  CASE LowerType(ty) = "image" -> "worker.generate_image"
    [] LowerType(ty) = "video" -> "worker.generate_video"
    [] OTHER -> "worker.generate_image"

\* redis GET: the value, 0 when the key is absent or has expired
RedisGet(store, k, t) == IF store[k].val # 0 /\ t < store[k].exp THEN store[k].val ELSE 0

\* `if existing:`
IdemHit(existing) == existing # 0

NoReq ==
  [pc |-> "start", slug |-> NULL, idem_key |-> NULL, job_id |-> 0, resp |-> 0,
   seen |-> {}, fresh |-> {}, setAt |-> 0]

\* the calls that have returned a job id they created, less than 24 h after
\* storing their key
Returned(q) ==
  /\ req[q].pc = "done"
  /\ req[q].job_id # 0
  /\ now < req[q].setAt + 24 * 3600

\* the calls with key k that have ended
Ended(q, k) ==
  /\ k # NULL
  /\ req[q].idem_key = k
  /\ req[q].pc \in {"done", "error"}

CreateInit ==
  /\ redisIdem = [k \in IdemKeySet |-> [val |-> 0, exp |-> 0]]
  /\ cjobs = << >>
  /\ sent = << >>
  /\ req = [r \in Reqs |-> NoReq]

\* create_job up to `existing = await redis.get(idem_key)`: a hit returns the
\* stored id at once.  Calls are numbered in the order in which they arrive.
CheckIdempotency(r) ==
  /\ req[r].pc = "start"
  /\ \A q \in Reqs : q < r => req[q].pc # "start"
  /\ \E c \in ClaimsSet, h \in HeaderKeys :
       LET slug == tenant_slug(c)
           k == IdemKey(slug, h)
           existing == IF k = NULL THEN 0 ELSE RedisGet(redisIdem, k, now)
           base == [req[r] EXCEPT !.slug = slug, !.idem_key = k,
                                  !.seen = {q \in Reqs : Ended(q, k)},
                                  !.fresh = {q \in Reqs : Ended(q, k) /\ Returned(q)}]
       IN req' = [req EXCEPT ![r] =
                    IF k # NULL /\ IdemHit(existing)
                    THEN [base EXCEPT !.pc = "done", !.resp = existing]
                    ELSE [base EXCEPT !.pc = "miss"]]
  /\ UNCHANGED <<now, redisIdem, cjobs, sent>>
  /\ UNCHANGED nonCreateVars

\* db.add(job); commit; refresh; send_task; external_job_id = str(res.id).
\* send_task may raise: the request then ends with an error and the committed
\* row stays.
InsertAndDispatch(r) ==
  /\ req[r].pc = "miss"
  /\ \E ty \in TypeInputs, sendOk \in BOOLEAN :
       LET id == Len(cjobs) + 1 IN
         /\ cjobs' = Append(cjobs, [tenant |-> req[r].slug, type |-> to_jobtype(ty),
                                    status |-> "PENDING",
                                    external_job_id |-> IF sendOk THEN id ELSE 0,
                                    by |-> r])
         /\ sent' = IF sendOk
                    THEN Append(sent, [task |-> DispatchedTask(ty), job_id |-> id, by |-> r])
                    ELSE sent
         /\ req' = [req EXCEPT ![r].job_id = id,
                               ![r].pc = IF sendOk THEN "created" ELSE "error"]
  /\ UNCHANGED <<now, redisIdem>>
  /\ UNCHANGED nonCreateVars

\* if idem_key: await redis.setex(idem_key, 24*3600, str(job.id))
SetIdempotencyKey(r) ==
  /\ req[r].pc = "created"
  /\ IF req[r].idem_key # NULL
     THEN /\ redisIdem' = [redisIdem EXCEPT ![req[r].idem_key] =
                             [val |-> req[r].job_id, exp |-> now + IDEM_TTL]]
          /\ req' = [req EXCEPT ![r].pc = "keyset", ![r].setAt = now]
     ELSE /\ req' = [req EXCEPT ![r].pc = "keyset"]
          /\ UNCHANGED redisIdem
  /\ UNCHANGED <<now, cjobs, sent>>
  /\ UNCHANGED nonCreateVars

\* redis.hset(...); return {"id": job.id, "status": "queued", ...}
ReturnCreated(r) ==
  /\ req[r].pc = "keyset"
  /\ req' = [req EXCEPT ![r].pc = "done", ![r].resp = req[r].job_id]
  /\ UNCHANGED <<now, redisIdem, cjobs, sent>>
  /\ UNCHANGED nonCreateVars

\* time passes between steps of the calls; it is observed only by redis.get
\* of a call still to come, on a key that is stored
TickCreate(d) ==
  /\ now + d <= MaxTicks * IDEM_TTL
  /\ \E k \in IdemKeySet : IdemHit(RedisGet(redisIdem, k, now))
  /\ \E r \in Reqs : req[r].pc = "start"
  /\ now' = now + d
  /\ UNCHANGED createVars
  /\ UNCHANGED nonCreateVars

CreateNext ==
  \/ \E r \in Reqs : CheckIdempotency(r)
  \/ \E r \in Reqs : InsertAndDispatch(r)
  \/ \E r \in Reqs : SetIdempotencyKey(r)
  \/ \E r \in Reqs : ReturnCreated(r)
  \/ \E d \in {IDEM_TTL \div 2, IDEM_TTL} : TickCreate(d)

JobsBy(R) == {i \in 1..Len(cjobs) : cjobs[i].by \in R}
SentBy(R) == {i \in 1..Len(sent) : sent[i].by \in R}

\* ------------------------------------------------------------------------
\* IdempotentTask.__call__ and the tasks built on it
\* ------------------------------------------------------------------------
MaxMsgs == 2

MsgIds == 1..MaxMsgs

\* redis_client.set(idem_key, "1", nx=True, ex=3600)
IDEM_TASK_TTL == 3600

\* Task.max_retries of generate_video / generate_image / generate_music
task_max_retries == 3

IdemTaskNames == {"aeon_workers.app.generate_video", "aeon_workers.app.generate_image"}

\* repr of the positional and keyword arguments enqueue_generate sends
IdemTaskArgs == {"('j1',)"}
IdemTaskKwargs == {"{}"}

\* f"{self.name}:{args}:{kwargs}"; sha256 of it is taken to be collision free,
\* so the key is identified by its basis
key_basis(name, args, kwargs) == name \o ":" \o args \o ":" \o kwargs

idem_key(name, args, kwargs) == "idem:" \o key_basis(name, args, kwargs)

IdemTaskKeys ==
  {idem_key(n, a, k) : n \in IdemTaskNames, a \in IdemTaskArgs, k \in IdemTaskKwargs}

KeyAlive(k) == idemStore[k] # 0 /\ now < idemStore[k]

\* what redis_client.set(..., nx=True) returns: True when it set the key,
\* None (not False) when the key was already there
SetNxReply(exists) == IF exists THEN "None" ELSE "True"

\* `redis_client.set(...) is False`
DuplicateDetectedFalsy(reply) == reply # "True"

DuplicateDetected(reply) == reply = "False"

NoMsg ==
  [name |-> NULL, key |-> NULL, pc |-> "none", state |-> "NONE", retries |-> 0,
   runs |-> 0, bodyRuns |-> 0, completed |-> FALSE, retrySuppressed |-> FALSE]

IdemInit ==
  /\ idemStore = [k \in IdemTaskKeys |-> 0]
  /\ runsInLife = [k \in IdemTaskKeys |-> 0]
  /\ tmsg = [m \in MsgIds |-> NoMsg]

\* enqueue_generate: app.send_task(task_name, args=[job_id]).  Messages are
\* numbered in the order in which they are sent.
SendTask(m) ==
  /\ tmsg[m].pc = "none"
  /\ \A q \in MsgIds : q < m => tmsg[q].pc # "none"
  /\ \E n \in IdemTaskNames, a \in IdemTaskArgs, k \in IdemTaskKwargs :
       tmsg' = [tmsg EXCEPT ![m] =
                  [NoMsg EXCEPT !.name = n, !.key = idem_key(n, a, k),
                                !.pc = "queued", !.state = "PENDING"]]
  /\ UNCHANGED <<now, idemStore, runsInLife>>
  /\ UNCHANGED nonIdemVars

\* IdempotentTask.__call__ up to the call of self.run
Call(m) ==
  /\ tmsg[m].pc = "queued"
  /\ LET k == tmsg[m].key
         reply == SetNxReply(KeyAlive(k))
     IN /\ idemStore' = IF reply = "True"
                        THEN [idemStore EXCEPT ![k] = now + IDEM_TASK_TTL]
                        ELSE idemStore
        /\ IF DuplicateDetected(reply)
           THEN /\ tmsg' = [tmsg EXCEPT ![m].pc = "done", ![m].state = "SUCCESS",
                                        ![m].runs = @ + 1,
                                        ![m].retrySuppressed = @ \/ tmsg[m].retries > 0]
                /\ UNCHANGED runsInLife
           ELSE /\ tmsg' = [tmsg EXCEPT ![m].pc = "body", ![m].runs = @ + 1,
                                        ![m].bodyRuns = @ + 1]
                /\ runsInLife' = [runsInLife EXCEPT ![k] = IF reply = "True" THEN 1 ELSE @ + 1]
  /\ UNCHANGED now
  /\ UNCHANGED nonIdemVars

\* self.run: the body returns, or raises and autoretry_for=(Exception,)
\* retries the task until max_retries is used up
RunBody(m) ==
  /\ tmsg[m].pc = "body"
  /\ \/ tmsg' = [tmsg EXCEPT ![m].pc = "done", ![m].state = "SUCCESS", ![m].completed = TRUE]
     \/ tmsg' = IF tmsg[m].retries + 1 > task_max_retries
                THEN [tmsg EXCEPT ![m].pc = "done", ![m].state = "FAILURE"]
                ELSE [tmsg EXCEPT ![m].pc = "queued", ![m].state = "RETRY",
                                  ![m].retries = @ + 1]
  /\ UNCHANGED <<now, idemStore, runsInLife>>
  /\ UNCHANGED nonIdemVars

\* time passes between the steps of the tasks.  The body reads no clock, so time
\* that passes while a body runs is taken after the body has ended.
TickIdem(d) ==
  /\ now + d <= MaxTicks * IDEM_TASK_TTL
  /\ tmsg[1].pc # "none"
  /\ \A m \in MsgIds : tmsg[m].pc # "body"
  /\ now' = now + d
  /\ UNCHANGED idemVars
  /\ UNCHANGED nonIdemVars

IdemNext ==
  \/ \E m \in MsgIds : SendTask(m)
  \/ \E m \in MsgIds : Call(m)
  \/ \E m \in MsgIds : RunBody(m)
  \/ \E d \in {IDEM_TASK_TTL \div 2, IDEM_TASK_TTL} : TickIdem(d)

\* ------------------------------------------------------------------------
\* aeon.tasks.media generate_video / generate_image / generate_music
\* ------------------------------------------------------------------------
MediaKinds == {"video", "image", "music"}

\* `self.request.retries < 3`
MEDIA_MAX_RETRIES == 3

\* the progress values a task reports between RUNNING and SUCCEEDED
ProgressPlan(kind) ==
  CASE kind = "video" -> <<10, 20, 80, 90>>
    [] kind = "image" -> <<10, 90>>
    [] kind = "music" -> <<10, 60, 60, 80, 80>>

NoMedia ==
  [kind |-> "none", pc |-> "none", state |-> "NONE", progress |-> 0, error |-> NULL,
   step |-> 0, retries |-> 0, runs |-> 0]

MediaInit == mtask = NoMedia

\* update_job_progress(job_id, progress, status, error): the job row is not
\* written; the task state is set to status, or PROGRESS without one
update_job_progress(t, progress, status, error) ==
  [t EXCEPT !.state = IF status = NULL THEN "PROGRESS" ELSE status,
            !.progress = progress, !.error = error]

MediaSend(kind) ==
  /\ mtask.pc = "none"
  /\ mtask' = [NoMedia EXCEPT !.kind = kind, !.pc = "queued", !.state = "PENDING"]
  /\ UNCHANGED nonMediaVars

\* the task body starts: update_job_progress(job_id, 0, "RUNNING")
MediaBegin ==
  /\ mtask.pc = "queued"
  /\ mtask' = [update_job_progress(mtask, 0, "RUNNING", NULL) EXCEPT
                 !.pc = "work", !.step = 1, !.runs = @ + 1]
  /\ UNCHANGED nonMediaVars

\* the next update_job_progress(job_id, p) of the body, the last one being
\* update_job_progress(job_id, 100, "SUCCEEDED")
MediaAdvance ==
  /\ mtask.pc = "work"
  /\ LET plan == ProgressPlan(mtask.kind) IN
       mtask' = IF mtask.step <= Len(plan)
                THEN [update_job_progress(mtask, plan[mtask.step], NULL, NULL) EXCEPT
                        !.step = @ + 1]
                ELSE [update_job_progress(mtask, 100, "SUCCEEDED", NULL) EXCEPT !.pc = "return"]
  /\ UNCHANGED nonMediaVars

\* return result: the queue records SUCCESS
MediaReturn ==
  /\ mtask.pc = "return"
  /\ mtask' = [mtask EXCEPT !.pc = "done", !.state = "SUCCESS"]
  /\ UNCHANGED nonMediaVars

\* a step of the body raises
MediaRaise ==
  /\ mtask.pc = "work"
  /\ \E e \in Messages : mtask' = [mtask EXCEPT !.pc = "except", !.error = e]
  /\ UNCHANGED nonMediaVars

\* except Exception as e: update_job_progress(job_id, 0, "FAILED", error_msg)
MediaMarkFailed ==
  /\ mtask.pc = "except"
  /\ mtask' = [update_job_progress(mtask, 0, "FAILED", mtask.error) EXCEPT !.pc = "retry"]
  /\ UNCHANGED nonMediaVars

\* if self.request.retries < 3: raise self.retry(countdown=...); else raise
MediaRetryOrRaise ==
  /\ mtask.pc = "retry"
  /\ mtask' = IF mtask.retries < MEDIA_MAX_RETRIES
              THEN [mtask EXCEPT !.pc = "queued", !.state = "RETRY", !.retries = @ + 1]
              ELSE [mtask EXCEPT !.pc = "done", !.state = "FAILURE"]
  /\ UNCHANGED nonMediaVars

MediaNext ==
  \/ \E kind \in MediaKinds : MediaSend(kind)
  \/ MediaBegin
  \/ MediaAdvance
  \/ MediaReturn
  \/ MediaRaise
  \/ MediaMarkFailed
  \/ MediaRetryOrRaise

\* ------------------------------------------------------------------------
\* LeakyBucketLimiter.allow
\* ------------------------------------------------------------------------
MaxCalls == 8
MaxConcurrent == 6
MaxInFlight == 2
MaxBTime == 2
MaxFaults == 1

Calls == 1..MaxCalls

\* time and tokens are kept in halves, so that half a second leaks half a token
BScale == 2

\* LeakyBucketConfig(capacity=5, leak_rate_per_sec=1)
capacity == 5

leak_rate_per_sec == 1

\* self.redis.expire(key, 3600)
BUCKET_TTL == 3600

Max(a, b) == IF a >= b THEN a ELSE b

\* exp of a key that was written and never given a time to live
NoExpiry == -1

NoBucket == [present |-> FALSE, tokens |-> 0, ts |-> 0, exp |-> 0]

KeyLive(b, t) == b.present /\ (b.exp = NoExpiry \/ t < b.exp)

\* pipe.hgetall(key): an expired or missing key reads as {}
hgetall(b, t) == IF KeyLive(b, t) THEN b ELSE NoBucket

\* tokens = max(0.0, tokens - max(0.0, now - last) * leak_rate_per_sec);
\* 0.0 when the hash is empty
Drained(data, t) ==
  IF data.present
  THEN Max(0, data.tokens - Max(0, t - data.ts) * leak_rate_per_sec)
  ELSE 0

\* `tokens + 1 > config.capacity`
OverCapacityInclusive(tokens) == tokens + BScale >= capacity * BScale

OverCapacity(tokens) == tokens + BScale > capacity * BScale

\* fault: the redis command of the call that failed, if one did
NoCall == [pc |-> "start", now |-> 0, tokens |-> 0, result |-> "none", fault |-> "none"]

InFlight == {c \in Calls : bcall[c].pc = "read"}

\* redis commands that have failed so far
Faults == Cardinality({c \in Calls : bcall[c].fault # "none"})

BucketInit ==
  /\ bnow = 0
  /\ bucket = NoBucket
  /\ bcall = [c \in Calls |-> NoCall]

\* allow() up to `data = pipe.execute()[0]`; the command raises when redis
\* cannot be reached.  Calls are numbered in the order in which they start, and
\* at most `limit` of them are inside allow() at a time.
AllowRead(c, limit) ==
  /\ bcall[c].pc = "start"
  /\ \A d \in Calls : d < c => bcall[d].pc # "start"
  /\ Cardinality(InFlight) < limit
  /\ \/ bcall' = [bcall EXCEPT ![c].pc = "read", ![c].now = bnow,
                               ![c].tokens = Drained(hgetall(bucket, bnow), bnow)]
     \/ /\ Faults < MaxFaults
        /\ bcall' = [bcall EXCEPT ![c].pc = "done", ![c].now = bnow, ![c].result = "raised",
                                     ![c].fault = "hgetall"]
  /\ UNCHANGED <<bnow, bucket>>
  /\ UNCHANGED nonBucketVars

\* the rest of allow(): hset(key, {"tokens", "ts"}), expire(key, 3600) and the
\* return; either command raises when redis cannot be reached
AllowWrite(c) ==
  /\ bcall[c].pc = "read"
  /\ LET tokens == bcall[c].tokens
         over == OverCapacity(tokens)
         \* hset keeps the time to live of a key that is there and makes a
         \* missing key without one
         written == [present |-> TRUE,
                     tokens |-> IF over THEN tokens ELSE tokens + BScale,
                     ts |-> bcall[c].now,
                     exp |-> IF KeyLive(bucket, bnow) THEN bucket.exp ELSE NoExpiry]
     IN \/ \* hset raises
           /\ Faults < MaxFaults
           /\ bcall' = [bcall EXCEPT ![c].pc = "done", ![c].tokens = 0, ![c].result = "raised",
                                     ![c].fault = "hset"]
           /\ UNCHANGED bucket
        \/ \* hset is done, expire raises
           /\ Faults < MaxFaults
           /\ bcall' = [bcall EXCEPT ![c].pc = "done", ![c].tokens = 0, ![c].result = "raised",
                                     ![c].fault = "expire"]
           /\ bucket' = written
        \/ /\ bcall' = [bcall EXCEPT ![c].pc = "done", ![c].tokens = 0,
                                     ![c].result = IF over THEN "false" ELSE "true"]
           /\ bucket' = [written EXCEPT !.exp = bnow + BUCKET_TTL * BScale]
  /\ UNCHANGED bnow
  /\ UNCHANGED nonBucketVars

\* half a second passes before the next call starts
TickBucket ==
  /\ bnow < MaxBTime
  /\ bcall[1].pc # "start"
  /\ \E c \in Calls : bcall[c].pc = "start"
  /\ bnow' = bnow + 1
  /\ UNCHANGED <<bucket, bcall>>
  /\ UNCHANGED nonBucketVars

\* allow() called by one caller at a time
BucketSeqNext ==
  \/ \E c \in Calls : AllowRead(c, 1)
  \/ \E c \in Calls : AllowWrite(c)
  \/ TickBucket

\* allow() called from several request handlers at once
BucketNext ==
  \/ \E c \in 1..MaxConcurrent : AllowRead(c, MaxInFlight)
  \/ \E c \in Calls : AllowWrite(c)
  \/ TickBucket

\* ------------------------------------------------------------------------
\* rate_limit and create_job (POST /v1/media/jobs)
\* ------------------------------------------------------------------------
MaxMReqs == 2
MaxRlTicks == 2

MReqs == 1..MaxMReqs

\* settings.RATE_LIMIT_DEFAULT
RATE_LIMIT_DEFAULT == 100

\* rate_limit(request, settings.RATE_LIMIT_DEFAULT, 60, prefix="media:jobs")
RL_WINDOW == 60

\* int(time.time() // window)
RlBucketPerSecond(t, window) == t

RlBucket(t, window) == t \div window

\* sha256(sub) of the users in use, "anon" without a sub
user_hash(sub) == IF Falsy(sub) THEN "anon" ELSE "sha256(" \o sub \o ")"

\* _key: f"rl:{prefix}:{ip}:{user_hash}:{bucket}"
rl_key(prefix, ip, sub, t, window) ==
  "rl:" \o prefix \o ":" \o ip \o ":" \o user_hash(sub) \o ":" \o ToString(RlBucket(t, window))

RlTimes == {i * (RL_WINDOW \div 2) : i \in 0..MaxRlTicks}

\* the client whose requests are followed
ClientIp == "127.0.0.1"
ClientSub == "u1"

RlKeyAt(t) == rl_key("media:jobs", ClientIp, ClientSub, t, RL_WINDOW)

RlKeys == {RlKeyAt(t) : t \in RlTimes}

\* INCR on a key: an expired or missing key counts from 0
RlIncr(store, k, t) == IF t < store[k].exp THEN store[k].val + 1 ELSE 1

\* `int(count) > limit`
RateLimitedOffByOne(count, limit) == count > limit + 1

RateLimited(count, limit) == count > limit

\* what rate_limit does when pipe.execute() raises: nothing catches it
RateLimitOnErrorFailOpen == "admit"

RateLimitOnError == "raise"

\* body.kind, by the pattern of CreateJobRequest
MediaKindInputs == {"image", "video", "audio"}

\* the keys of body.payload
PayloadInputs == {{}, {"prompt"}, {"text"}}

kind_map(kind) ==
  CASE kind = "image" -> "IMAGE_GENERATION"
    [] kind = "video" -> "VIDEO_GENERATION"
    [] kind = "audio" -> "AUDIO_GENERATION"

\* the keyword arguments create_job writes out in the task call, next to **payload
ExplicitKwargs(kind) ==
  CASE kind = "image" -> {"prompt", "job_id"}
    [] kind = "video" -> {"prompt", "job_id", "provider"}
    [] kind = "audio" -> {"text", "job_id"}

\* f(prompt=..., **payload) raises TypeError when payload repeats a keyword
CallRaisesTypeError(kind, payload) == ExplicitKwargs(kind) \cap payload # {}

\* count: the counter value the request got from INCR; fault: redis failed
\* under rate_limit; resp: the HTTP status returned
\* at, key: when the request went through rate_limit, and the key it counted on
NoMReq ==
  [pc |-> "start", count |-> 0, fault |-> FALSE, kind |-> NULL, job_id |-> 0, resp |-> 0,
   at |-> 0, key |-> NULL]

MapiInit ==
  /\ rlnow = 0
  /\ rl = [k \in RlKeys |-> [val |-> 0, exp |-> 0]]
  /\ mjobs = << >>
  /\ msent = << >>
  /\ mreq = [r \in MReqs |-> NoMReq]

\* the requests the client made in this window before the ones that are
\* followed: each went through rate_limit, and together they leave the
\* counter one below the limit
EarlierRequests ==
  /\ \A r \in MReqs : mreq[r].pc = "start"
  /\ rl[RlKeyAt(rlnow)].val = 0
  /\ rl' = [rl EXCEPT ![RlKeyAt(rlnow)] =
               [val |-> RATE_LIMIT_DEFAULT - 1, exp |-> rlnow + RL_WINDOW]]
  /\ UNCHANGED <<rlnow, mjobs, msent, mreq>>
  /\ UNCHANGED nonMapiVars

\* create_job up to the end of rate_limit: the body size cap, then INCR and
\* EXPIRE of the window's key in one pipeline, then `int(count) > limit`
MAdmit(r) ==
  /\ mreq[r].pc = "start"
  /\ \A q \in MReqs : q < r => mreq[q].pc # "start"
  /\ \/ \* content-length over runtime.max_body_bytes
        /\ mreq' = [mreq EXCEPT ![r].pc = "done", ![r].resp = 413]
        /\ UNCHANGED rl
     \/ \* pipe.execute() raises
        /\ mreq' = [mreq EXCEPT ![r].fault = TRUE,
                                ![r].pc = IF RateLimitOnError = "raise" THEN "done" ELSE "admitted",
                                ![r].resp = IF RateLimitOnError = "raise" THEN 500 ELSE 0]
        /\ UNCHANGED rl
     \/ LET k == RlKeyAt(rlnow)
            count == RlIncr(rl, k, rlnow)
        IN /\ rl' = [rl EXCEPT ![k] = [val |-> count, exp |-> rlnow + RL_WINDOW]]
           /\ mreq' = [mreq EXCEPT ![r].count = count, ![r].at = rlnow, ![r].key = k,
                                   ![r].pc = IF RateLimited(count, RATE_LIMIT_DEFAULT)
                                             THEN "done" ELSE "admitted",
                                   ![r].resp = IF RateLimited(count, RATE_LIMIT_DEFAULT)
                                               THEN 429 ELSE 0]
  /\ UNCHANGED <<rlnow, mjobs, msent>>
  /\ UNCHANGED nonMapiVars

\* `if not user.sub` (401), then Job(...), db.add, commit, refresh; the commit
\* may raise, and then there is no row
MInsert(r) ==
  /\ mreq[r].pc = "admitted"
  /\ \/ /\ mreq' = [mreq EXCEPT ![r].pc = "done", ![r].resp = 401]
        /\ UNCHANGED mjobs
     \/ /\ mreq' = [mreq EXCEPT ![r].pc = "done", ![r].resp = 500]
        /\ UNCHANGED mjobs
     \/ \E kind \in MediaKindInputs :
          /\ mjobs' = Append(mjobs, [type |-> kind_map(kind), status |-> "PENDING", by |-> r])
          /\ mreq' = [mreq EXCEPT ![r].pc = "inserted", ![r].kind = kind,
                                  ![r].job_id = Len(mjobs) + 1]
  /\ UNCHANGED <<rlnow, rl, msent>>
  /\ UNCHANGED nonMapiVars

\* generate_<kind>_task(..., job_id=job.id, **payload) and the return
MDispatch(r) ==
  /\ mreq[r].pc = "inserted"
  /\ \E payload \in PayloadInputs :
       IF CallRaisesTypeError(mreq[r].kind, payload)
       THEN /\ mreq' = [mreq EXCEPT ![r].pc = "done", ![r].resp = 500]
            /\ UNCHANGED msent
       ELSE /\ mreq' = [mreq EXCEPT ![r].pc = "done", ![r].resp = 200]
            /\ msent' = Append(msent, [task |-> mreq[r].kind, job_id |-> mreq[r].job_id, by |-> r])
  /\ UNCHANGED <<rlnow, rl, mjobs>>
  /\ UNCHANGED nonMapiVars

\* half a window passes before the next request arrives
TickRl ==
  /\ rlnow + RL_WINDOW \div 2 \in RlTimes
  /\ mreq[1].pc # "start"
  /\ \E r \in MReqs : mreq[r].pc = "start"
  /\ rlnow' = rlnow + RL_WINDOW \div 2
  /\ UNCHANGED <<rl, mjobs, msent, mreq>>
  /\ UNCHANGED nonMapiVars

MapiNext ==
  \/ \E r \in MReqs : MAdmit(r)
  \/ \E r \in MReqs : MInsert(r)
  \/ \E r \in MReqs : MDispatch(r)
  \/ EarlierRequests
  \/ TickRl

MJobsBy(r) == {i \in 1..Len(mjobs) : mjobs[i].by = r}
MSentBy(r) == {i \in 1..Len(msent) : msent[i].by = r}

\* ------------------------------------------------------------------------
\* JobsService.create_job, CreditsService.debit, generate_image
\* ------------------------------------------------------------------------
MaxBalance == 3
MaxCreditOps == 4

\* the cost of a job, in credits
CostInputs == {1, 2}

RECURSIVE SumSeq(_)
SumSeq(q) == IF q = << >> THEN 0 ELSE Head(q) + SumSeq(Tail(q))

\* the size of the run so far: rows, answers and credits debited
CreditOps == Len(sjobs) + Len(imgJobs) + debited

CreditInit ==
  /\ balance = MaxBalance
  /\ debited = 0
  /\ sjobs = << >>
  /\ credMetric = 0
  /\ imgJobs = << >>

\* the debit_credits function of the ledger: takes the amount from a balance
\* that covers it
debit_credits(bal, amount) == bal - amount

\* CreditsService.debit: one rpc, which raises when the ledger refuses
\* (insufficient credit) or cannot be reached
CreditsService_debit(amount) ==
  /\ CreditOps < MaxCreditOps
  /\ amount <= balance
  /\ balance' = debit_credits(balance, amount)
  /\ debited' = debited + amount
  /\ UNCHANGED <<sjobs, credMetric, imgJobs>>
  /\ UNCHANGED nonCreditVars

\* JobsService.create_job: one insert into jobs, status QUEUED, cost_credits =
\* cost; no call to the ledger
JobsService_create_job(cost) ==
  /\ CreditOps < MaxCreditOps
  /\ sjobs' = Append(sjobs, cost)
  /\ UNCHANGED <<balance, debited, credMetric, imgJobs>>
  /\ UNCHANGED nonCreditVars

\* generate_image (POST /generate): estimates the cost, counts it in
\* credits_debited_total, and answers with a QUEUED ImageJob; the balance
\* check, the debit and the store are TODOs
generate_image_request(total_cost) ==
  /\ CreditOps < MaxCreditOps
  /\ credMetric' = credMetric + total_cost
  /\ imgJobs' = Append(imgJobs, total_cost)
  /\ UNCHANGED <<balance, debited, sjobs>>
  /\ UNCHANGED nonCreditVars

CreditNext ==
  \/ \E a \in CostInputs : CreditsService_debit(a)
  \/ \E c \in CostInputs : JobsService_create_job(c)
  \/ \E c \in CostInputs : generate_image_request(c)

\* ------------------------------------------------------------------------
\* stream_jobs (GET /v1/jobs/stream) and jobs_websocket (/ws/jobs)
\* ------------------------------------------------------------------------
\* the tenant-wide SSE stream, the SSE stream of one job, the websocket
StreamKinds == {"sse_all", "sse_job", "ws"}

\* await asyncio.sleep(15) of the ping loop
PING_SLEEP == 15

\* await asyncio.sleep(1) of the status loop
POLL_SLEEP == 1

\* timer: seconds until the generator wakes; quiet: a second has gone by
\* since the connection last carried an event; last: the status last sent
NoStream == [state |-> "none", timer |-> 0, quiet |-> FALSE, last |-> "none"]

Emitted(st) == [st EXCEPT !.quiet = FALSE]

StreamInit ==
  /\ sclock = 0
  /\ strm = [k \in StreamKinds |-> NoStream]
  /\ qstate = "PENDING"
  /\ wsPending = "none"

\* a client connects.  stream_jobs without id starts the ping loop;
\* with id it selects provider_job_id: without one it sends "queued" and
\* ends, with one it starts the status loop.  jobs_websocket accepts and
\* subscribes to jobs_events.
OpenStream(k) ==
  /\ strm[k].state = "none"
  /\ \/ /\ k \in {"sse_all", "ws"}
        /\ strm' = [strm EXCEPT ![k] = [NoStream EXCEPT !.state = "open"]]
     \/ /\ k = "sse_job"
        /\ \E task_id \in {NULL, "task"} :
             strm' = [strm EXCEPT ![k] =
                        IF task_id = NULL
                        THEN [NoStream EXCEPT !.state = "ended", !.last = "queued"]
                        ELSE [NoStream EXCEPT !.state = "open"]]
  /\ UNCHANGED <<sclock, qstate, wsPending>>
  /\ UNCHANGED nonStreamVars

\* while True: yield {"event": "ping", ...}; await asyncio.sleep(15)
PingLoop ==
  /\ strm["sse_all"].state = "open"
  /\ strm["sse_all"].timer = 0
  /\ strm' = [strm EXCEPT !["sse_all"] = [Emitted(@) EXCEPT !.timer = PING_SLEEP]]
  /\ UNCHANGED <<sclock, qstate, wsPending>>
  /\ UNCHANGED nonStreamVars

\* while True: status = status_map.get(state, "queued"); a status that differs
\* from the last one is sent; completed / failed end the stream; otherwise
\* await asyncio.sleep(1)
StatusLoop ==
  /\ strm["sse_job"].state = "open"
  /\ strm["sse_job"].timer = 0
  /\ LET status == status_map[qstate]
         st == IF status # strm["sse_job"].last
               THEN [Emitted(strm["sse_job"]) EXCEPT !.last = status]
               ELSE strm["sse_job"]
     IN strm' = [strm EXCEPT !["sse_job"] =
                   IF status \in {"completed", "failed"}
                   THEN [st EXCEPT !.state = "ended"]
                   ELSE [st EXCEPT !.timer = POLL_SLEEP]]
  /\ UNCHANGED <<sclock, qstate, wsPending>>
  /\ UNCHANGED nonStreamVars

\* the worker moves the task on
QueueAdvance ==
  /\ \E next \in {"RETRY", "SUCCESS", "FAILURE"} :
       /\ qstate \in {"PENDING", "RETRY"}
       /\ qstate # next
       /\ qstate' = next
  /\ UNCHANGED <<sclock, strm, wsPending>>
  /\ UNCHANGED nonStreamVars

\* a worker publishes on jobs_events (one status write in a second at most);
\* a subscribed websocket gets the message
PublishToChannel ==
  /\ strm["ws"].state = "open"
  /\ wsPending = "none"
  /\ wsPending' = "pending"
  /\ UNCHANGED <<sclock, strm, qstate>>
  /\ UNCHANGED nonStreamVars

\* async for message in pubsub.listen(): ... await ws.send_json(payload)
WsForward ==
  /\ strm["ws"].state = "open"
  /\ wsPending = "pending"
  /\ wsPending' = "forwarded"
  /\ strm' = [strm EXCEPT !["ws"] = Emitted(@)]
  /\ UNCHANGED <<sclock, qstate>>
  /\ UNCHANGED nonStreamVars

\* the client goes away
CloseStream(k) ==
  /\ strm[k].state = "open"
  /\ strm' = [strm EXCEPT ![k].state = "ended"]
  /\ wsPending' = IF k = "ws" THEN "none" ELSE wsPending
  /\ UNCHANGED <<sclock, qstate>>
  /\ UNCHANGED nonStreamVars

\* a stream that has work to do now: a sleep that is over, a message to forward
Due(k) ==
  /\ strm[k].state = "open"
  /\ \/ k \in {"sse_all", "sse_job"} /\ strm[k].timer = 0
     \/ k = "ws" /\ wsPending = "pending"

\* one second passes, once every stream that is due has run
TickStream ==
  /\ \A k \in StreamKinds : ~Due(k)
  /\ sclock' = 1 - sclock
  /\ strm' = [k \in StreamKinds |->
                IF strm[k].state = "open"
                THEN [strm[k] EXCEPT !.timer = Max(0, @ - 1), !.quiet = TRUE]
                ELSE strm[k]]
  /\ wsPending' = "none"
  /\ UNCHANGED qstate
  /\ UNCHANGED nonStreamVars

StreamNext ==
  \/ \E k \in StreamKinds : OpenStream(k)
  \/ PingLoop
  \/ StatusLoop
  \/ QueueAdvance
  \/ PublishToChannel
  \/ WsForward
  \/ \E k \in StreamKinds : CloseStream(k)
  \/ TickStream

\* ------------------------------------------------------------------------
\* estimate_*_cost and generate_* (media_image.py, media_video.py,
\* media_music.py)
\* ------------------------------------------------------------------------
MaxQTime == 1

\* dict.get(key, default)
Lookup(table, key, default) == IF key \in DOMAIN table THEN table[key] ELSE default

\* the multiplier tables, in tenths
image_dimension_multipliers ==
  [k \in {"512x512", "1024x1024", "1024x768", "768x1024", "1536x1536", "2048x2048"} |->
     CASE k = "512x512" -> 10 [] k = "1024x1024" -> 15 [] k = "1024x768" -> 14
       [] k = "768x1024" -> 14 [] k = "1536x1536" -> 20 [] k = "2048x2048" -> 30]

image_style_multipliers ==
  [k \in {"photorealistic", "artistic", "cartoon", "abstract", "portrait", "landscape"} |->
     CASE k = "photorealistic" -> 10 [] k = "artistic" -> 12 [] k = "cartoon" -> 8
       [] k = "abstract" -> 11 [] k = "portrait" -> 13 [] k = "landscape" -> 11]

image_quality_multipliers ==
  [k \in {"standard", "hd", "ultra"} |->
     CASE k = "standard" -> 10 [] k = "hd" -> 15 [] k = "ultra" -> 20]

image_provider_multipliers ==
  [k \in {"openai", "replicate", "midjourney", "stable-diffusion"} |->
     CASE k = "openai" -> 10 [] k = "replicate" -> 8 [] k = "midjourney" -> 13
       [] k = "stable-diffusion" -> 6]

\* estimate_image_cost: int(50 * dimension * style * quality * provider) * count.
\* For every entry of the tables and every default the float product and the
\* exact one truncate to the same integer.
estimate_image_cost(r) ==
  LET base_cost_per_image == 50
      cost_per_image ==
        (base_cost_per_image
           * Lookup(image_dimension_multipliers, r.dimensions, 15)
           * Lookup(image_style_multipliers, r.style, 10)
           * Lookup(image_quality_multipliers, r.quality, 10)
           * Lookup(image_provider_multipliers, r.provider, 10)) \div 10000
  IN [base_cost |-> base_cost_per_image, total_cost |-> cost_per_image * r.count]

video_resolution_multipliers ==
  [k \in {"720p", "1080p", "4k"} |->
     CASE k = "720p" -> 10 [] k = "1080p" -> 15 [] k = "4k" -> 30]

video_style_multipliers ==
  [k \in {"casual", "corporate", "cinematic", "animated"} |->
     CASE k = "casual" -> 10 [] k = "corporate" -> 12 [] k = "cinematic" -> 18
       [] k = "animated" -> 20]

video_priority_multipliers ==
  [k \in {"low", "normal", "high"} |->
     CASE k = "low" -> 8 [] k = "normal" -> 10 [] k = "high" -> 15]

\* max(1.0, duration / 30), in thirtieths
DurationMultiplier30(duration) == IF duration > 30 THEN duration ELSE 30

\* estimate_video_cost: int((100 * duration * resolution * style + voice_over
\* + background_music) * priority)
estimate_video_cost(r) ==
  LET base_cost == 100
      voice_over_cost == IF r.voice_over THEN 50 ELSE 0
      background_music_cost == IF r.background_music THEN 25 ELSE 0
  IN [base_cost |-> base_cost,
      total_cost |->
        ((base_cost * DurationMultiplier30(r.duration)
            * Lookup(video_resolution_multipliers, r.resolution, 15)
            * Lookup(video_style_multipliers, r.style, 10)
          + 3000 * (voice_over_cost + background_music_cost))
         * Lookup(video_priority_multipliers, r.priority, 10)) \div 30000]

music_genre_multipliers ==
  [k \in {"ambient", "electronic", "pop", "rock", "jazz", "classical", "orchestral"} |->
     CASE k = "ambient" -> 8 [] k = "electronic" -> 10 [] k = "pop" -> 11
       [] k = "rock" -> 12 [] k = "jazz" -> 14 [] k = "classical" -> 16
       [] k = "orchestral" -> 20]

music_model_multipliers ==
  [k \in {"musicgen-small", "musicgen-medium", "musicgen-large", "musicgen-melody"} |->
     CASE k = "musicgen-small" -> 8 [] k = "musicgen-medium" -> 10
       [] k = "musicgen-large" -> 13 [] k = "musicgen-melody" -> 15]

\* estimate_music_cost: int(75 * duration * genre * quality)
estimate_music_cost(r) ==
  LET base_cost == 75
  IN [base_cost |-> base_cost,
      total_cost |->
        (base_cost * DurationMultiplier30(r.duration)
           * Lookup(music_genre_multipliers, r.genre, 10)
           * Lookup(music_model_multipliers, r.model, 10)) \div 3000]

\* request bodies; the durations are ones for which the float arithmetic of
\* the code is exact; "sepia", "8k", "folk" are not in the tables
ImageRequests ==
  [dimensions : {"512x512", "1024x1024"}, style : {"sepia"},
   quality : {"hd"}, provider : {"replicate"}, count : {1, 3}]

VideoRequests ==
  [duration : {5, 45}, resolution : {"8k"}, style : {"cinematic"},
   voice_over : {TRUE}, background_music : {FALSE}, priority : {"low", "high"}]

MusicRequests ==
  [duration : {10, 45}, genre : {"jazz", "folk"}, model : {"musicgen-large"}]

QuoteMedia == {"image", "video", "music"}

RequestsOf(media) ==
  CASE media = "image" -> ImageRequests
    [] media = "video" -> VideoRequests
    [] media = "music" -> MusicRequests

estimate_cost(media, r) ==
  CASE media = "image" -> estimate_image_cost(r)
    [] media = "video" -> estimate_video_cost(r)
    [] media = "music" -> estimate_music_cost(r)

QuoteUsers == {"u1", "u2"}

\* credits_cost=cost_estimate.base_cost
JobCreditsCostBase(cost_estimate) == cost_estimate.base_cost

\* credits_cost=cost_estimate.total_cost
JobCreditsCost(cost_estimate) == cost_estimate.total_cost

NoAnswer == [media |-> "none", request |-> [none |-> TRUE], user |-> NULL, at |-> 0, cost |-> 0]

QuoteInit ==
  /\ qnow = 0
  /\ quote = NoAnswer
  /\ gjob = NoAnswer

\* POST /estimate: the answer's total_cost
EstimateCost(media, r, user) ==
  /\ quote' = [media |-> media, request |-> r, user |-> user, at |-> qnow,
               cost |-> estimate_cost(media, r).total_cost]
  /\ UNCHANGED <<qnow, gjob>>
  /\ UNCHANGED nonQuoteVars

\* POST /generate: cost_estimate = await estimate_*_cost(...); the job
\* answered carries credits_cost
GenerateJob(media, r, user) ==
  /\ LET cost_estimate == estimate_cost(media, r)
     IN gjob' = [media |-> media, request |-> r, user |-> user, at |-> qnow,
                 cost |-> JobCreditsCost(cost_estimate)]
  /\ UNCHANGED <<qnow, quote>>
  /\ UNCHANGED nonQuoteVars

TickQuote ==
  /\ qnow < MaxQTime
  /\ qnow' = qnow + 1
  /\ UNCHANGED <<quote, gjob>>
  /\ UNCHANGED nonQuoteVars

QuoteNext ==
  \/ \E media \in QuoteMedia : \E r \in RequestsOf(media) : \E user \in QuoteUsers :
       EstimateCost(media, r, user)
  \/ \E media \in QuoteMedia : \E r \in RequestsOf(media) : \E user \in QuoteUsers :
       GenerateJob(media, r, user)
  \/ TickQuote

\* ------------------------------------------------------------------------
\* webgen: commit (POST /v1/webgen/commit), get_project, runner.py and
\* webgen_consumer.py
\* ------------------------------------------------------------------------
MaxProjects == 2

ProjIds == 1..MaxProjects

\* the two programs that pop aeon:webgen_queue
Consumers == {"runner", "webgen_consumer"}

NoProject == [status |-> "none", pushed |-> FALSE, printed |-> "none"]

IdleConsumer == [pc |-> "idle", pid |-> 0]

WebInit ==
  /\ wproj = [p \in ProjIds |-> NoProject]
  /\ wqueue = << >>
  /\ wcons = [c \in Consumers |-> IdleConsumer]
  /\ wpoll = [p \in ProjIds |-> "none"]
  /\ wpar = 0

\* commit: insert into web_projects (..., 'queued', ...); db.commit(); then
\* r.lpush("aeon:webgen_queue", ...), which may raise after the row is stored
commit(p) ==
  /\ wproj[p].status = "none"
  /\ \A q \in ProjIds : q < p => wproj[q].status # "none"
  /\ \E pushOk \in BOOLEAN :
       /\ wproj' = [wproj EXCEPT ![p] = [NoProject EXCEPT !.status = "queued", !.pushed = pushOk]]
       /\ wqueue' = IF pushOk THEN <<p>> \o wqueue ELSE wqueue
  /\ UNCHANGED <<wcons, wpoll, wpar>>
  /\ UNCHANGED nonWebVars

\* get_project: select ... status ... from web_projects where id = :id
get_project(p) ==
  /\ wproj[p].status # "none"
  /\ wpoll' = [wpoll EXCEPT ![p] = wproj[p].status]
  /\ wpar' = 1 - wpar
  /\ UNCHANGED <<wproj, wqueue, wcons>>
  /\ UNCHANGED nonWebVars

\* r.brpop("aeon:webgen_queue"): the consumer takes the tail of the list
Brpop(c) ==
  /\ wcons[c].pc = "idle"
  /\ wqueue # << >>
  /\ wcons' = [wcons EXCEPT ![c] = [pc |-> "job", pid |-> wqueue[Len(wqueue)]]]
  /\ wqueue' = SubSeq(wqueue, 1, Len(wqueue) - 1)
  /\ UNCHANGED <<wproj, wpoll, wpar>>
  /\ UNCHANGED nonWebVars

\* runner.py: handle_job(job), then update_project(..., status="built") or,
\* when handle_job raised, update_project(..., status="failed"); the
\* update_project of runner.py prints its arguments and writes nothing
RunnerHandle ==
  /\ wcons["runner"].pc = "job"
  /\ \E handled \in BOOLEAN :
       wproj' = [wproj EXCEPT ![wcons["runner"].pid].printed =
                   IF handled THEN "built" ELSE "failed"]
  /\ wcons' = [wcons EXCEPT !["runner"] = IdleConsumer]
  /\ UNCHANGED <<wqueue, wpoll, wpar>>
  /\ UNCHANGED nonWebVars

\* process_web_project: UPDATE web_projects SET status = 'processing'; commit
WebWriteProcessing ==
  /\ wcons["webgen_consumer"].pc = "job"
  /\ \E dbOk \in BOOLEAN :
       /\ wproj' = IF dbOk
                   THEN [wproj EXCEPT ![wcons["webgen_consumer"].pid].status = "processing"]
                   ELSE wproj
       /\ wcons' = [wcons EXCEPT !["webgen_consumer"].pc = IF dbOk THEN "generate" ELSE "except"]
  /\ UNCHANGED <<wqueue, wpoll, wpar>>
  /\ UNCHANGED nonWebVars

\* process_web_project: UPDATE web_projects SET status = 'completed', ...; commit
WebWriteCompleted ==
  /\ wcons["webgen_consumer"].pc = "generate"
  /\ \E dbOk \in BOOLEAN :
       /\ wproj' = IF dbOk
                   THEN [wproj EXCEPT ![wcons["webgen_consumer"].pid].status = "completed"]
                   ELSE wproj
       /\ wcons' = [wcons EXCEPT !["webgen_consumer"].pc = IF dbOk THEN "returned" ELSE "except"]
  /\ UNCHANGED <<wqueue, wpoll, wpar>>
  /\ UNCHANGED nonWebVars

\* process_web_project, except Exception: UPDATE web_projects SET status =
\* 'failed', ...; commit; an exception of this write is logged and dropped
WebWriteFailed ==
  /\ wcons["webgen_consumer"].pc = "except"
  /\ \E dbOk \in BOOLEAN :
       wproj' = IF dbOk
                THEN [wproj EXCEPT ![wcons["webgen_consumer"].pid].status = "failed"]
                ELSE wproj
  /\ wcons' = [wcons EXCEPT !["webgen_consumer"].pc = "returned"]
  /\ UNCHANGED <<wqueue, wpoll, wpar>>
  /\ UNCHANGED nonWebVars

\* main: process_web_project has returned, the loop goes back to brpop
WebLoop ==
  /\ wcons["webgen_consumer"].pc = "returned"
  /\ wcons' = [wcons EXCEPT !["webgen_consumer"] = IdleConsumer]
  /\ UNCHANGED <<wproj, wqueue, wpoll, wpar>>
  /\ UNCHANGED nonWebVars

WebNext ==
  \/ \E p \in ProjIds : commit(p)
  \/ \E p \in ProjIds : get_project(p)
  \/ \E c \in Consumers : Brpop(c)
  \/ RunnerHandle
  \/ WebWriteProcessing
  \/ WebWriteCompleted
  \/ WebWriteFailed
  \/ WebLoop

\* ------------------------------------------------------------------------
\* IdempotentTask.__call__: the key
\* ------------------------------------------------------------------------
MaxInvocations == 2

Invocations == 1..MaxInvocations

\* argument values: a Python str or int, with the text of it
PyStr(x) == [t |-> "str", s |-> x]
PyInt(x) == [t |-> "int", s |-> x]

\* repr(v)
Repr(v) == IF v.t = "str" THEN "'" \o v.s \o "'" ELSE v.s

RECURSIVE JoinStrings(_, _)
JoinStrings(parts, sep) ==
  IF parts = << >> THEN ""
  ELSE IF Len(parts) = 1 THEN parts[1]
  ELSE parts[1] \o sep \o JoinStrings(Tail(parts), sep)

\* f"{args}" of the tuple of positional arguments
ReprTuple(args) ==
  IF Len(args) = 1
  THEN "(" \o Repr(args[1]) \o ",)"
  ELSE "(" \o JoinStrings([i \in 1..Len(args) |-> Repr(args[i])], ", ") \o ")"

\* f"{kwargs}" of the dict of keyword arguments: its items in insertion order,
\* which is the order in which the caller wrote them
ReprDict(kwargs) ==
  "{" \o JoinStrings([i \in 1..Len(kwargs) |->
                        Repr(PyStr(kwargs[i][1])) \o ": " \o Repr(kwargs[i][2])], ", ") \o "}"

\* key_basis and idem_key of an invocation
TaskKey(name, args, kwargs) == idem_key(name, ReprTuple(args), ReprDict(kwargs))

ArgsInputs == {<<PyStr("j1")>>, <<PyStr("j2")>>}

KwargsInputs ==
  { << >>,
    << <<"seed", PyInt("1")>>, <<"style", PyStr("hd")>> >>,
    << <<"style", PyStr("hd")>>, <<"seed", PyInt("1")>> >>,
    << <<"seed", PyStr("1")>>, <<"style", PyStr("hd")>> >> }

\* the dict a sequence of items stands for
DictOf(kwargs) == {kwargs[i] : i \in 1..Len(kwargs)}

NoInvocation == [name |-> NULL, args |-> << >>, kwargs |-> << >>, key |-> NULL]

KeyInit == kinv = [i \in Invocations |-> NoInvocation]

\* task(*args, **kwargs) reaches IdempotentTask.__call__
Invoke(i, name, args, kwargs) ==
  /\ kinv[i] = NoInvocation
  /\ \A j \in Invocations : j < i => kinv[j] # NoInvocation
  /\ kinv' = [kinv EXCEPT ![i] = [name |-> name, args |-> args, kwargs |-> kwargs,
                                  key |-> TaskKey(name, args, kwargs)]]
  /\ UNCHANGED nonKeyVars

KeyNext ==
  \E i \in Invocations, name \in IdemTaskNames, args \in ArgsInputs, kwargs \in KwargsInputs :
    Invoke(i, name, args, kwargs)

\* ------------------------------------------------------------------------
\* RateLimiter.is_allowed
\* ------------------------------------------------------------------------
MaxSlCalls == 4
MaxSlTicks == 3

SlCalls == 1..MaxSlCalls

\* RateLimiter(key, limit, window=60) as a caller would build it
SlLimit == 2
SlWindow == 60

\* the clock moves in steps of half a window
SlStep == SlWindow \div 2

NoSlCall == [pc |-> "start", now |-> 0, allowed |-> FALSE]

SlideInit ==
  /\ slnow = 0
  /\ zset = {}
  /\ slcall = [c \in SlCalls |-> NoSlCall]

\* zremrangebyscore(key, 0, now - window): the scores from 0 to max inclusive
zremrangebyscore(members, max) == {m \in members : ~(0 <= m /\ m <= max)}

\* `current_requests < self.limit`
SlAllowed(current_requests, limit) == current_requests < limit

\* is_allowed up to pipeline.execute(): zremrangebyscore, zcard, zadd of the
\* member str(now) with score now, expire, in one transaction.  A member that
\* is in the set already is not added a second time.  expire(key, window)
\* drops the key only when every member is older than the window.
IsAllowedPipeline(c) ==
  /\ slcall[c].pc = "start"
  /\ \A d \in SlCalls : d < c => slcall[d].pc # "start"
  /\ LET kept == zremrangebyscore(zset, slnow - SlWindow)
         current_requests == Cardinality(kept)
         allowed == SlAllowed(current_requests, SlLimit)
     IN /\ zset' = kept \cup {slnow}
        /\ slcall' = [slcall EXCEPT ![c] =
                        [pc |-> IF allowed THEN "done" ELSE "rejected",
                         now |-> slnow, allowed |-> allowed]]
  /\ UNCHANGED slnow
  /\ UNCHANGED nonSlideVars

\* `if not allowed: redis_client.zrem(self.key, str(now))`, then return
IsAllowedZrem(c) ==
  /\ slcall[c].pc = "rejected"
  /\ zset' = zset \ {slcall[c].now}
  /\ slcall' = [slcall EXCEPT ![c].pc = "done"]
  /\ UNCHANGED slnow
  /\ UNCHANGED nonSlideVars

TickSlide ==
  /\ slnow + SlStep <= MaxSlTicks * SlStep
  /\ slnow' = slnow + SlStep
  /\ UNCHANGED <<zset, slcall>>
  /\ UNCHANGED nonSlideVars

SlideNext ==
  \/ \E c \in SlCalls : IsAllowedPipeline(c)
  \/ \E c \in SlCalls : IsAllowedZrem(c)
  \/ TickSlide

vars == <<firstVars, laterVars, thirdVars>>

Init ==
  /\ now = 0
  /\ LifeInit
  /\ CreateInit
  /\ IdemInit
  /\ MediaInit
  /\ BucketInit
  /\ MapiInit
  /\ CreditInit
  /\ StreamInit
  /\ QuoteInit
  /\ WebInit
  /\ KeyInit
  /\ SlideInit

Next == LifeNext

Spec == Init /\ [][Next]_vars

SpecCreate == Init /\ [][CreateNext]_vars

SpecIdem == Init /\ [][IdemNext]_vars

SpecMedia == Init /\ [][MediaNext]_vars

SpecBucket == Init /\ [][BucketNext]_vars

SpecBucketSeq == Init /\ [][BucketSeqNext]_vars

SpecMediaApi == Init /\ [][MapiNext]_vars

\* the two admission checks side by side: an allow() call and the create_job
\* requests behind rate_limit
AdmissionCalls == {1}

AdmissionNext ==
  \/ \E c \in AdmissionCalls : AllowRead(c, 1)
  \/ \E c \in AdmissionCalls : AllowWrite(c)
  \/ MapiNext

SpecAdmission == Init /\ [][AdmissionNext]_vars

SpecCredits == Init /\ [][CreditNext]_vars

SpecStream == Init /\ [][StreamNext]_vars

SpecQuote == Init /\ [][QuoteNext]_vars

SpecKey == Init /\ [][KeyNext]_vars

SpecSlide == Init /\ [][SlideNext]_vars

SpecWeb == Init /\ [][WebNext]_vars

\* the consumers are running processes, and the client keeps polling
FairSpecWeb ==
  /\ SpecWeb
  /\ \A c \in Consumers : WF_vars(Brpop(c))
  /\ WF_vars(RunnerHandle)
  /\ WF_vars(WebWriteProcessing)
  /\ WF_vars(WebWriteCompleted)
  /\ WF_vars(WebWriteFailed)
  /\ WF_vars(WebLoop)
  /\ \A p \in ProjIds : WF_vars(get_project(p))

\* the event loop runs a generator whose sleep is over, forwards a message
\* that has arrived, and time goes on
FairSpecStream ==
  /\ SpecStream
  /\ WF_vars(PingLoop)
  /\ WF_vars(StatusLoop)
  /\ WF_vars(WsForward)
  /\ WF_vars(TickStream)


\* ------------------------------------------------------------------------
\* Properties of create_job (SpecCreate)
\* ------------------------------------------------------------------------
SameKey(r1, r2) ==
  /\ req[r1].idem_key # NULL
  /\ req[r1].idem_key = req[r2].idem_key

\* one call had ended before the other arrived
Sequential(r1, r2) == r1 \in req[r2].seen \/ r2 \in req[r1].seen

\* r2 arrived after r1 had returned the job it created, within 24 h of r1
\* storing the key, and no other call with that key overlapped r1
RepeatOf(r1, r2) ==
  /\ r1 # r2
  /\ SameKey(r1, r2)
  /\ r1 \in req[r2].fresh
  /\ \A r3 \in Reqs \ {r1} :
       (req[r3].pc # "start" /\ SameKey(r1, r3)) => Sequential(r1, r3)

\* C3: a create_job call that repeats, with the same tenant and
\* Idempotency-Key, a call that has returned less than 24 h before gets the
\* first call's job id, inserts no Job row and sends no task.
RepeatedCallReturnsFirstJob ==
  \A r1, r2 \in Reqs :
    (RepeatOf(r1, r2) /\ req[r2].pc # "start") =>
      /\ req[r2].pc = "done"
      /\ req[r2].resp = req[r1].resp
      /\ req[r2].job_id = 0
      /\ JobsBy({r2}) = {}
      /\ SentBy({r2}) = {}

\* a repeated call 12 h after the first one has answered with the first job
RepeatedCallAnswered ==
  \E r1, r2 \in Reqs :
    /\ RepeatOf(r1, r2)
    /\ req[r2].pc = "done"
    /\ req[r2].resp = req[r1].job_id
    /\ req[r1].setAt = 0
    /\ now >= IDEM_TTL \div 2
    /\ Len(cjobs) = 1

\* the worker task written for a job type
TaskOfType(type) ==
  CASE type = "IMAGE_GENERATION" -> "worker.generate_image"
    [] type = "VIDEO_GENERATION" -> "worker.generate_video"
    [] type = "AUDIO_GENERATION" -> "worker.generate_audio"

\* C30: the task create_job sends for a job is the worker task of the type it
\* stored on the Job row.
DispatchMatchesStoredType ==
  \A i \in 1..Len(sent) :
    sent[i].task = TaskOfType(cjobs[sent[i].job_id].type)

\* C4: two concurrent create_job calls with the same tenant and
\* Idempotency-Key create exactly one Job row, send at most one task and
\* return the same job id.
ConcurrentDuplicatesShareOneJob ==
  \A r1, r2 \in Reqs :
    ( /\ r1 # r2
      /\ SameKey(r1, r2)
      /\ ~Sequential(r1, r2)
      /\ req[r1].pc = "done"
      /\ req[r2].pc = "done"
      /\ now < 24 * 3600 ) =>
      /\ req[r1].resp = req[r2].resp
      /\ Cardinality(JobsBy({r1, r2})) = 1
      /\ Cardinality(SentBy({r1, r2})) <= 1

\* ------------------------------------------------------------------------
\* Properties of IdempotentTask (SpecIdem)
\* ------------------------------------------------------------------------

\* C5: among the executions delivered with the same task name, args and
\* kwargs while the idempotency key lives, at most one runs the task body;
\* the others are suppressed as duplicates.
OneBodyRunPerKeyLife ==
  \A k \in IdemTaskKeys : runsInLife[k] <= 1

\* C6: the retry of an attempt that raised runs the body again, for at most
\* max_retries + 1 executions, never counts as a duplicate, and a task is
\* SUCCESS only once its body has completed.
RetryRunsBody ==
  \A m \in MsgIds :
    /\ ~tmsg[m].retrySuppressed
    /\ tmsg[m].runs <= task_max_retries + 1
    /\ (tmsg[m].state = "SUCCESS" /\ tmsg[m].retries > 0) => tmsg[m].completed

\* a task that succeeded on a retry made while the key of its failed
\* attempt was still there
SucceededOnRetry ==
  \E m \in MsgIds :
    /\ tmsg[m].state = "SUCCESS"
    /\ tmsg[m].retries > 0
    /\ tmsg[m].completed
    /\ KeyAlive(tmsg[m].key)
    /\ now = 0

\* ------------------------------------------------------------------------
\* Properties of the media tasks (SpecMedia)
\* ------------------------------------------------------------------------

\* C7: FAILED is written only by the attempt that exhausts the retries, in the
\* worker tasks and in the aeon.tasks.media tasks alike.
FailedOnlyWhenExhausted ==
  /\ \A j \in JobIds : job[j].status = "FAILED" => task[j].retries >= max_retries
  /\ mtask.state = "FAILED" => mtask.retries >= MEDIA_MAX_RETRIES

\* ------------------------------------------------------------------------
\* Properties of the job lifecycle (Spec)
\* ------------------------------------------------------------------------

\* C1: once a job's stored status is COMPLETED, FAILED or CANCELLED, no step
\* (worker attempt, retry, get_job poll, cancel request) changes it again.
TerminalIsSticky ==
  [][\A j \in JobIds : job[j].status \in Terminal => job'[j].status = job[j].status]_vars

\* a job completed after a retry, then polled (get_job wrote COMPLETED and the
\* result over it) and asked to cancel, and still COMPLETED
TerminalJobPolledAndCancelled ==
  \E j \in JobIds :
    /\ job[j].status = "COMPLETED"
    /\ task[j].retries > 0
    /\ job[j].output_data # NULL
    /\ lastPoll[j] = "completed"
    /\ cancelResp[j] = "cancelled"

\* C2: the stored status of a job run by a worker task goes PENDING, then
\* PROCESSING, then terminal: no step takes a PENDING job anywhere but to
\* PROCESSING.
PendingOnlyToProcessing ==
  [][\A j \in JobIds :
       job[j].status = "PENDING" => job'[j].status \in {"PENDING", "PROCESSING"}]_vars

CancelPendingCancels ==
  [][\A j \in JobIds :
       (cancel_video_job(j) /\ job[j].status = "PENDING") => job'[j].status = "CANCELLED"]_vars

\* the stored status a reported status stands for
StoredFor(reported) ==
  CASE reported \in {"queued", "pending"} -> "PENDING"
    [] reported = "processing" -> "PROCESSING"
    [] reported = "completed" -> "COMPLETED"
    [] reported = "failed" -> "FAILED"
    [] reported = "cancelled" -> "CANCELLED"
    [] OTHER -> "none"

\* C18: the status a get_job call returns is the status the store holds when
\* the call returns (checked for the calls during which no one else wrote the
\* job's status, so that a write racing with the poll is not held against it).
PollReturnsStoredStatus ==
  [][\A j \in JobIds :
       (GetJobFinish(j) /\ poll[j].stored = job[j].status) =>
         StoredFor(lastPoll'[j]) = job'[j].status]_vars

\* C19: a step that changes the stored status of a job publishes exactly one
\* event, which carries the new status, and a step that leaves the stored
\* status as it was publishes none.
OneEventPerStatusChange ==
  [][\A j \in JobIds :
       job[j] # NoJob =>
         IF job'[j].status # job[j].status
         THEN events'[j] = Append(events[j], Lower(job'[j].status))
         ELSE events'[j] = events[j]]_vars

\* C9: a FAILED job has an error message, and only a FAILED job has one.
ErrorIffFailed ==
  \A j \in JobIds :
    /\ job[j].status = "FAILED" => job[j].error_message # NULL
    /\ job[j].error_message # NULL => job[j].status = "FAILED"

\* C10: a job that is PROCESSING eventually gets a terminal status.
ProcessingLeadsToTerminal ==
  \A j \in JobIds :
    (job[j].status = "PROCESSING") ~> (job[j].status \in Terminal)

\* C21: a job whose stored status is COMPLETED, FAILED or CANCELLED has a
\* completed_at, and a job that is PENDING or PROCESSING has none.
CompletedAtIffTerminal ==
  \A j \in JobIds :
    job[j] # NoJob =>
      (job[j].status \in Terminal <=> job[j].completed_at # NULL)

\* C22: get_job of the media router returns no assets for a job whose stored
\* status is not COMPLETED.
NoAssetsUntilCompleted ==
  \A j \in JobIds :
    (job[j] # NoJob /\ job[j].status # "COMPLETED") => media_get_job_assets(j) = 0

\* C23: a job that is COMPLETED has one Asset row and one storage write per
\* provider output of the attempt that completed it, however many attempts
\* failed before.
OneAssetPerOutput ==
  \A j \in JobIds :
    job[j].status = "COMPLETED" =>
      /\ assets[j] = task[j].n
      /\ s3puts[j] = task[j].n

\* ------------------------------------------------------------------------
\* Properties of LeakyBucketLimiter (SpecBucketSeq, SpecBucket)
\* ------------------------------------------------------------------------

\* calls 1..c have returned and redis answered every command of theirs
AnsweredUpTo(c) ==
  \A k \in 1..c : bcall[k].pc = "done" /\ bcall[k].fault = "none"

\* the level of the bucket after call c, by the rule of the admission
\* controller: drain by elapsed * leak rate, not below 0, and add one for an
\* admitted call
RECURSIVE LevelAfter(_)
LevelBefore(c) ==
  IF c = 1 THEN 0
  ELSE Max(0, LevelAfter(c - 1) - (bcall[c].now - bcall[c - 1].now) * leak_rate_per_sec)

Admitted(c) == LevelBefore(c) + BScale <= capacity * BScale

LevelAfter(c) == IF Admitted(c) THEN LevelBefore(c) + BScale ELSE LevelBefore(c)

\* C11: with capacity 5 and 1 token leaking per second, the first 5 immediate
\* calls of a fresh user return true and the 6th false; one second later one
\* more call returns true and the next is rejected; in general a call returns
\* true exactly when the drained level plus one does not exceed the capacity.
AllowFollowsLevel ==
  \A c \in Calls :
    AnsweredUpTo(c) =>
      /\ bcall[c].result = (IF Admitted(c) THEN "true" ELSE "false")
      /\ bcall[c].now = 0 => (bcall[c].result = "true" <=> c <= capacity)
      /\ ( /\ c = capacity + 2
           /\ bcall[c - 1].now = 0
           /\ bcall[c].now = BScale ) => bcall[c].result = "true"
      /\ ( /\ c = capacity + 3
           /\ bcall[c - 2].now = 0
           /\ bcall[c - 1].now = BScale
           /\ bcall[c].now = BScale ) => bcall[c].result = "false"

\* six immediate calls, then two calls one second later: the first of them
\* admitted, the second rejected
OneMoreAfterOneSecond ==
  /\ AnsweredUpTo(capacity + 3)
  /\ \A c \in 1..capacity : bcall[c].now = 0 /\ bcall[c].result = "true"
  /\ bcall[capacity + 1].now = 0 /\ bcall[capacity + 1].result = "false"
  /\ bcall[capacity + 2].now = BScale /\ bcall[capacity + 2].result = "true"
  /\ bcall[capacity + 3].now = BScale /\ bcall[capacity + 3].result = "false"

\* C12: of the concurrent allow() calls of one user made with no time
\* elapsing, exactly `capacity` return true and the others false, whatever the
\* interleaving.
ConcurrentCallsAdmitCapacity ==
  ( /\ \A c \in 1..MaxConcurrent : bcall[c].pc = "done" /\ bcall[c].fault = "none"
    /\ bnow = 0 ) =>
    /\ Cardinality({c \in 1..MaxConcurrent : bcall[c].result = "true"}) = capacity
    /\ Cardinality({c \in 1..MaxConcurrent : bcall[c].result = "false"}) = MaxConcurrent - capacity

\* C13 as stated: a call during which a redis command failed returns false.
StoreFailureReturnsFalse ==
  \A c \in Calls : bcall[c].fault # "none" => bcall[c].result = "false"

\* C13 amended: when redis fails under an admission check the request is not
\* admitted: allow() raises the error of the failed command (it returns
\* neither true nor false), rate_limit raises it as well, and the create_job
\* request ends with a server error, no Job row and no task.
StoreFailureFailsClosed ==
  /\ \A c \in Calls : bcall[c].fault # "none" => bcall[c].result = "raised"
  /\ \A r \in MReqs :
       mreq[r].fault =>
         /\ mreq[r].pc = "done"
         /\ mreq[r].resp = 500
         /\ MJobsBy(r) = {}
         /\ MSentBy(r) = {}

\* redis failed under an allow() call that had read the bucket, and under
\* the rate_limit of a request, while another request went through
StoreFailedUnderBothChecks ==
  /\ \E c \in Calls : bcall[c].fault = "hset" /\ bcall[c].result = "raised"
  /\ \E r, q \in MReqs :
       /\ mreq[r].fault /\ mreq[r].resp = 500
       /\ mreq[q].resp = 200 /\ MJobsBy(q) # {}

\* ------------------------------------------------------------------------
\* Properties of create_job of the media router (SpecMediaApi)
\* ------------------------------------------------------------------------

\* C14: a request that rate_limit rejects (its counter value exceeds the
\* limit) ends with 429, and a request answered 429 has inserted no Job row
\* and dispatched no task.
RejectedRequestCreatesNothing ==
  \A r \in MReqs :
    /\ mreq[r].count > RATE_LIMIT_DEFAULT => mreq[r].resp = 429
    /\ mreq[r].resp = 429 =>
         /\ mreq[r].pc = "done"
         /\ MJobsBy(r) = {}
         /\ MSentBy(r) = {}

\* the 100th request of the window got its job and its task, the 101st a 429
RejectedAfterAdmitted ==
  \E r, q \in MReqs :
    /\ mreq[q].count = RATE_LIMIT_DEFAULT /\ mreq[q].resp = 200 /\ MSentBy(q) # {}
    /\ mreq[r].count = RATE_LIMIT_DEFAULT + 1 /\ mreq[r].resp = 429
    /\ Len(mjobs) = 1

\* the requests that went through the INCR of rate_limit
Counted == {r \in MReqs : mreq[r].count > 0}

\* C25: requests counted in the same window (the same floor(t / window)) use
\* one key, which is rl:<prefix>:<ip>:<user hash>:<bucket number>; a counted
\* request gets 429 exactly when its counter value exceeds the limit; and the
\* requests of a window have different counter values, so that at most
\* `limit` of them are admitted.
AtMostLimitPerWindow ==
  \A r \in Counted :
    /\ mreq[r].key = "rl:" \o "media:jobs" \o ":" \o ClientIp \o ":" \o user_hash(ClientSub)
                       \o ":" \o ToString(mreq[r].at \div RL_WINDOW)
    /\ mreq[r].resp = 429 <=> mreq[r].count > RATE_LIMIT_DEFAULT
    /\ \A q \in Counted \ {r} :
         mreq[q].at \div RL_WINDOW = mreq[r].at \div RL_WINDOW =>
           /\ mreq[q].key = mreq[r].key
           /\ mreq[q].count # mreq[r].count

\* two requests half a window apart in one window: the 100th is admitted, the
\* 101st gets 429
LimitReachedLaterInWindow ==
  \E r, q \in Counted :
    /\ mreq[q].at = 0 /\ mreq[r].at = RL_WINDOW \div 2
    /\ mreq[q].count = RATE_LIMIT_DEFAULT /\ mreq[q].resp = 200
    /\ mreq[r].count = RATE_LIMIT_DEFAULT + 1 /\ mreq[r].resp = 429

\* C15: a create_job request that ends with an error has left no Job row.
ErrorLeavesNoJob ==
  \A r \in MReqs :
    (mreq[r].pc = "done" /\ mreq[r].resp >= 400) => MJobsBy(r) = {}

\* ------------------------------------------------------------------------
\* Properties of job creation and the credit debit (SpecCredits)
\* ------------------------------------------------------------------------

\* C16: the jobs that exist are the jobs whose cost was debited: the credits
\* taken from the balance are the costs of the Job rows, and no job is
\* answered, and no debit counted, beyond what was taken from the balance.
JobExistsIffDebited ==
  /\ SumSeq(sjobs) = debited
  /\ SumSeq(imgJobs) <= debited
  /\ credMetric <= debited

\* ------------------------------------------------------------------------
\* Properties of the streaming connections (FairSpecStream)
\* ------------------------------------------------------------------------

\* C20: a streaming connection that has been silent gets an event (a status
\* or a heartbeat) sooner or later for as long as it stays open, whichever its
\* kind.
IdleStreamGetsHeartbeat ==
  \A k \in StreamKinds :
    (strm[k].state = "open" /\ strm[k].quiet)
      ~> (strm[k].state # "open" \/ ~strm[k].quiet)

\* ------------------------------------------------------------------------
\* Properties of the cost estimates (SpecQuote)
\* ------------------------------------------------------------------------

CommittedProjectGetsBuiltOrFailed ==
  \A p \in ProjIds :
    (wproj[p].status = "queued" /\ wproj[p].pushed) ~> (wpoll[p] \in {"built", "failed"})

\* C27: when process_web_project has returned, the stored status of its
\* project is completed or failed.
ProcessedProjectIsSettled ==
  wcons["webgen_consumer"].pc = "returned" =>
    wproj[wcons["webgen_consumer"].pid].status \in {"completed", "failed"}

\* ------------------------------------------------------------------------
\* Properties of the task key (SpecKey)
\* ------------------------------------------------------------------------

\* the same task name, positional arguments and keyword arguments
SameInvocation(i, j) ==
  /\ kinv[i].name = kinv[j].name
  /\ kinv[i].args = kinv[j].args
  /\ DictOf(kinv[i].kwargs) = DictOf(kinv[j].kwargs)

\* C28: two invocations get the same key exactly when they have the same
\* task name, the same positional arguments and the same keyword arguments,
\* in whatever order the keyword arguments were given.
KeyIsFunctionOfLogicalCall ==
  \A i, j \in Invocations :
    (kinv[i] # NoInvocation /\ kinv[j] # NoInvocation) =>
      (SameInvocation(i, j) <=> kinv[i].key = kinv[j].key)

\* ------------------------------------------------------------------------
\* Properties of RateLimiter (SpecSlide)
\* ------------------------------------------------------------------------

SlTimes == {i * SlStep : i \in 0..MaxSlTicks}

\* C29: in every window of `window` seconds at most `limit` calls were
\* answered true, and the entry of an admitted call stays in the set for as
\* long as it lies within the window, whatever other calls were rejected.
AtMostLimitPerSlidingWindow ==
  /\ \A t \in SlTimes :
       Cardinality({c \in SlCalls : /\ slcall[c].allowed
                                     /\ t - SlWindow < slcall[c].now
                                     /\ slcall[c].now <= t}) <= SlLimit
  /\ \A c \in SlCalls :
       (slcall[c].allowed /\ slnow - SlWindow < slcall[c].now) => slcall[c].now \in zset

\* the queue runs a task that is ready, and clients keep polling
FairSpec ==
  /\ Spec
  /\ \A j \in JobIds :
       /\ WF_vars(WorkerStep(j))
       /\ WF_vars(SaveTaskId(j))
       /\ WF_vars(GetJobRead(j))
       /\ WF_vars(GetJobFinish(j))

====
